---- MODULE Spec2Model ----
(***************************************************************************)
(* Model of duet's ownership-scoped data-access layer (data/database.go),  *)
(* of its token issuance and verification (ServeLogin, VerifyToken) and of *)
(* the request gate in front of the GraphQL handler (main.go).             *)
(*                                                                         *)
(* The relational store is modelled as sets of rows; every gorm query is   *)
(* modelled by the SQL that gorm v1 (github.com/jinzhu/gorm) builds for    *)
(* it:                                                                     *)
(*   - Where(map)      : one equality per key, zero values included;       *)
(*   - Where(&struct)  : one equality per NON-BLANK field only;            *)
(*   - Model/First/Delete(&row) : "primary key = ..." only when the row's  *)
(*     primary key is not blank;                                           *)
(*   - a model with a DeletedAt field (Task, User) is soft-deleted and     *)
(*     every query on it adds "deleted_at IS NULL"; Action has no such     *)
(*     field and is removed for real.  No query of the program reads a     *)
(*     soft-deleted row again, so the model keeps only its id.             *)
(* Ids are uuid strings in the code; here a task or action id is a number  *)
(* in 1..Max and 0 stands for the blank string "".  A user id is a uint64, *)
(* 0 being its zero value (no stored user has it).  A blank id compared in *)
(* a query matches no row.                                                 *)
(***************************************************************************)
EXTENDS Integers, FiniteSets, Sequences, TLC

VARIABLES
    tasks,      \* rows of table tasks: [id, kind, done, user, deleted], or
                \* [id, deleted] for a soft-deleted row
    actions,    \* rows of table actions: [id, taskId]
    last,       \* the last Database call: its arguments and what it returned
    users,      \* rows of table users: [id, username, hash]
    resp,       \* the last REST exchange (/login, /verify, signup)
    req         \* the GraphQL-bound request in the gate

vars == <<tasks, actions, last, users, resp, req>>

\* ------------------------------------------------------------------ bounds

MaxTasks == 1
MaxActions == 1

Blank == 0
TaskIds == 1..MaxTasks
ActionIds == 1..MaxActions
\* uint64 user ids offered as arguments: the zero value and two users.
UserIds == {0, 1, 2}
\* TaskKind: TaskEnum, HabitEnum
TaskKinds == {"TaskEnum", "HabitEnum"}
\* kind *TaskKind: nil or a kind
KindArgs == TaskKinds \cup {"nil"}

\* ------------------------------------------------------- queries on tasks

\* Rows a query sees: gorm adds deleted_at IS NULL for a model with DeletedAt.
Live(ts) == {t \in ts : ~t.deleted}

ActionsOf(as, taskId) == {a \in as : a.taskId = taskId}

\* Preload("Actions"): the row with the actions whose task_id is its id.
Preload(t, as) ==
    [id |-> t.id, kind |-> t.kind, done |-> t.done, user |-> t.user,
     actions |-> ActionsOf(as, t.id)]

\* GetTask without the user_id key in its condition.
GetTaskNoOwner(ts, as, taskId, userId, kind) ==
    LET m == {t \in Live(ts) : /\ t.id = taskId
                               /\ (kind # "nil" => t.kind = kind)}
    IN  IF m = {} THEN [rows |-> {}, err |-> "record not found"]
        ELSE [rows |-> {Preload(CHOOSE t \in m : TRUE, as)}, err |-> "nil"]

\* Where(map{"id","user_id"[,"kind"]}).First: every key is compared, blank
\* or not; no row is gorm's record-not-found error.
GetTask(ts, as, taskId, userId, kind) ==
    LET m == {t \in Live(ts) : /\ t.id = taskId
                               /\ t.user = userId
                               /\ (kind # "nil" => t.kind = kind)}
    IN  IF m = {} THEN [rows |-> {}, err |-> "record not found"]
        ELSE [rows |-> {Preload(CHOOSE t \in m : TRUE, as)}, err |-> "nil"]

GetTasks(ts, as, userId, kind) ==
    {Preload(t, as) : t \in {r \in Live(ts) : /\ r.user = userId
                                              /\ (kind # "nil" => r.kind = kind)}}

\* ------------------------------------------------------------ Database calls

NoCall == [op |-> "none"]

GetTaskCall(taskId, userId, kind) ==
    /\ last' = [op |-> "GetTask", id |-> taskId, user |-> userId, kind |-> kind,
                ret |-> GetTask(tasks, actions, taskId, userId, kind)]
    /\ UNCHANGED <<tasks, actions, users, resp, req>>

GetTasksCall(userId, kind) ==
    /\ last' = [op |-> "GetTasks", user |-> userId, kind |-> kind,
                ret |-> GetTasks(tasks, actions, userId, kind)]
    /\ UNCHANGED <<tasks, actions, users, resp, req>>

\* AddTask without the assignment task.UserId = userId.
AddTaskKeepOwner(id, kind, done, owner, userId) ==
    \E newId \in TaskIds :
        /\ id # Blank => newId = id
        /\ id = Blank => newId \notin {t.id : t \in tasks}
        /\ IF newId \in {t.id : t \in tasks}
           THEN /\ tasks' = tasks
                /\ last' = [op |-> "AddTask", id |-> newId, user |-> userId,
                            owner |-> owner, err |-> "duplicate key"]
           ELSE /\ tasks' = tasks \cup {[id |-> newId, kind |-> kind, done |-> done,
                                        user |-> owner, deleted |-> FALSE]}
                /\ last' = [op |-> "AddTask", id |-> newId, user |-> userId,
                            owner |-> owner, err |-> "nil"]
        /\ UNCHANGED <<actions, users, resp, req>>

\* task.UserId = userId, then db.Create(task): a blank primary key takes the
\* column default uuid_generate_v4(), a fresh id; a given id that is already
\* a row's (soft-deleted rows included) violates the primary key.
AddTask(id, kind, done, owner, userId) ==
    \E newId \in TaskIds :
        /\ id # Blank => newId = id
        /\ id = Blank => newId \notin {t.id : t \in tasks}
        /\ IF newId \in {t.id : t \in tasks}
           THEN /\ tasks' = tasks
                /\ last' = [op |-> "AddTask", id |-> newId, user |-> userId,
                            owner |-> owner, err |-> "duplicate key"]
           ELSE /\ tasks' = tasks \cup {[id |-> newId, kind |-> kind, done |-> done,
                                        user |-> userId, deleted |-> FALSE]}
                /\ last' = [op |-> "AddTask", id |-> newId, user |-> userId,
                            owner |-> owner, err |-> "nil"]
        /\ UNCHANGED <<actions, users, resp, req>>

\* Where(&Task{Id, UserId}).Delete(&task): the struct condition compares only
\* the non-blank fields, and Delete adds "id = ..." only for a non-blank
\* primary key; a Task is soft-deleted (deleted_at set). RowsAffected counts
\* the rows the statement matched.
DeleteMatch(ts, taskId, userId) ==
    {t \in Live(ts) : /\ (taskId # Blank => t.id = taskId)
                      /\ (userId # 0 => t.user = userId)}

DeleteTask(taskId, userId) ==
    LET m == DeleteMatch(tasks, taskId, userId)
    IN  /\ tasks' = (tasks \ m) \cup {[id |-> t.id, deleted |-> TRUE] : t \in m}
        /\ last' = [op |-> "DeleteTask", id |-> taskId, user |-> userId,
                    ret |-> (m # {}), err |-> "nil"]
        /\ UNCHANGED <<actions, users, resp, req>>

\* attrs map[string]interface{}: a patch of columns. The maps offered are
\* the empty one, one that sets done, and one that sets user_id; a column
\* is absent from the map (<<>>) or given a value (<<v>>).
AttrMaps ==
    {[done |-> d, user_id |-> <<>>] : d \in {<<>>, <<TRUE>>, <<FALSE>>}}
        \cup {[done |-> <<>>, user_id |-> <<u>>] : u \in UserIds}

Patch(t, attrs) ==
    [t EXCEPT !.done = IF attrs.done = <<>> THEN @ ELSE attrs.done[1],
              !.user = IF attrs.user_id = <<>> THEN @ ELSE attrs.user_id[1]]

\* db.Model(&Task{Id}).Where("user_id = ?", userId).Updates(attrs): the
\* primary key is compared only when it is not blank, user_id always; an
\* empty map updates nothing (RowsAffected 0).
UpdateMatch(ts, taskId, userId, attrs) ==
    IF attrs.done = <<>> /\ attrs.user_id = <<>> THEN {}
    ELSE {t \in Live(ts) : /\ (taskId # Blank => t.id = taskId)
                           /\ t.user = userId}

\* On success the returned Task is the struct the call built (Id: taskId)
\* with the patched attributes set, and Actions loaded by
\* Related(&task.Actions): the actions whose task_id is taskId.
UpdateTask(taskId, userId, attrs) ==
    LET m == UpdateMatch(tasks, taskId, userId, attrs)
    IN  /\ tasks' = (tasks \ m) \cup {Patch(t, attrs) : t \in m}
        /\ last' = IF m = {}
                   THEN [op |-> "UpdateTask", id |-> taskId, user |-> userId,
                         attrs |-> attrs, err |-> "does not exist for user"]
                   ELSE [op |-> "UpdateTask", id |-> taskId, user |-> userId,
                         attrs |-> attrs, err |-> "nil",
                         ret |-> [id |-> taskId,
                                  actions |-> ActionsOf(actions, taskId)]]
        /\ UNCHANGED <<actions, users, resp, req>>

\* AddAction without the lookup of the parent task.
AddActionUnchecked(id, taskId, userId) ==
    \E newId \in ActionIds :
        /\ id # Blank => newId = id
        /\ id = Blank => newId \notin {a.id : a \in actions}
        /\ IF newId \in {a.id : a \in actions}
           THEN /\ actions' = actions
                /\ last' = [op |-> "AddAction", id |-> newId, taskId |-> taskId,
                            user |-> userId, err |-> "duplicate key"]
           ELSE /\ actions' = actions \cup {[id |-> newId, taskId |-> taskId]}
                /\ last' = [op |-> "AddAction", id |-> newId, taskId |-> taskId,
                            user |-> userId, err |-> "nil"]
        /\ UNCHANGED <<tasks, users, resp, req>>

\* AddAction: the parent task is loaded with GetTask scoped to userId, and
\* the action is created only when it was found.
AddAction(id, taskId, userId) ==
    IF GetTask(tasks, actions, taskId, userId, "nil").rows = {}
    THEN /\ last' = [op |-> "AddAction", id |-> id, taskId |-> taskId,
                     user |-> userId, err |-> "does not exist for user"]
         /\ UNCHANGED <<tasks, actions, users, resp, req>>
    ELSE \E newId \in ActionIds :
        /\ id # Blank => newId = id
        /\ id = Blank => newId \notin {a.id : a \in actions}
        /\ IF newId \in {a.id : a \in actions}
           THEN /\ actions' = actions
                /\ last' = [op |-> "AddAction", id |-> newId, taskId |-> taskId,
                            user |-> userId, err |-> "duplicate key"]
           ELSE /\ actions' = actions \cup {[id |-> newId, taskId |-> taskId]}
                /\ last' = [op |-> "AddAction", id |-> newId, taskId |-> taskId,
                            user |-> userId, err |-> "nil"]
        /\ UNCHANGED <<tasks, users, resp, req>>

\* db.Where(&Action{Id: id}).First(action): a blank id is no condition, and
\* First takes the row with the least primary key.
FirstAction(as, id) ==
    LET m == {a \in as : id # Blank => a.id = id}
    IN  IF m = {} THEN {} ELSE {CHOOSE a \in m : \A b \in m : a.id <= b.id}

DeleteAction(id, userId) ==
    LET found == FirstAction(actions, id)
    IN  IF found = {}
        THEN /\ last' = [op |-> "DeleteAction", id |-> id, user |-> userId,
                         err |-> "record not found"]
             /\ UNCHANGED <<tasks, actions, users, resp, req>>
        ELSE LET a == CHOOSE x \in found : TRUE
                 got == GetTask(tasks, actions, a.taskId, userId, "nil")
             IN  IF got.err # "nil"
                 THEN /\ last' = [op |-> "DeleteAction", id |-> id, user |-> userId,
                                  err |-> got.err]
                      /\ UNCHANGED <<tasks, actions, users, resp, req>>
                 ELSE /\ actions' = actions \ {a}
                      /\ last' = [op |-> "DeleteAction", id |-> id, user |-> userId,
                                  err |-> "nil"]
                      /\ UNCHANGED <<tasks, users, resp, req>>

\* ------------------------------------------------------------------ users

Usernames == {"alice", "bob"}
Passwords == {"pw1", "pw2"}
\* bcrypt draws a random salt for every hash.
Salts == {"s1", "s2"}

\* bcrypt.GenerateFromPassword: the salt and the digest of (salt, password).
Bcrypt(password, salt) == [salt |-> salt, digest |-> <<salt, password>>]

\* db.Create(user): username is unique; the id is the next serial number.
CreateUser(username, password) ==
    /\ \E salt \in Salts :
          IF \E x \in users : x.username = username
          THEN /\ users' = users
               /\ resp' = [op |-> "CreateUser", username |-> username,
                           err |-> "duplicate key"]
          ELSE /\ users' = users \cup {[id |-> Cardinality(users) + 1,
                                        username |-> username,
                                        hash |-> Bcrypt(password, salt)]}
               /\ resp' = [op |-> "CreateUser", username |-> username,
                           err |-> "nil"]
    /\ UNCHANGED <<tasks, actions, last, req>>

\* db.Where(&User{Username}).First(user): a blank username is no condition,
\* and First takes the row with the least id.
GetUserByUsername(us, username) ==
    LET m == {x \in us : username # "" => x.username = username}
    IN  IF m = {} THEN {} ELSE {CHOOSE x \in m : \A y \in m : x.id <= y.id}

\* ----------------------------------------------------------------- tokens

tokenSecret == "someSecret"
Keys == {tokenSecret, "otherSecret"}
Algs == {"HS256", "HS384", "none"}

\* The HMAC of the signing string (header and claims) under a key.
Mac(alg, key, sub) == <<alg, key, sub>>

\* A token string: malformed, or a header naming alg, claims with a subject,
\* and a signature (that of some key over this header and these claims).
Tokens ==
    {[wf |-> w, alg |-> a, sub |-> u, sig |-> Mac(a, k, u)] :
        w \in BOOLEAN, a \in Algs, u \in Usernames, k \in Keys}

\* jwt.NewWithClaims(SigningMethodHS256, {Subject: username}).SignedString
IssueToken(username) ==
    [wf |-> TRUE, alg |-> "HS256", sub |-> username,
     sig |-> Mac("HS256", tokenSecret, username)]

\* The signing method's Verify: "none" refuses any key that is not the
\* library's allow-none marker; an HMAC method recomputes the MAC.
MethodVerify(alg, key, sub, sig) ==
    IF alg = "none" THEN FALSE ELSE sig = Mac(alg, key, sub)

\* VerifyToken with a key function that does not look at the algorithm.
VerifyTokenAnyAlg(t) ==
    IF ~t.wf THEN [ok |-> FALSE, err |-> "malformed"]
    ELSE IF ~MethodVerify(t.alg, tokenSecret, t.sub, t.sig)
    THEN [ok |-> FALSE, err |-> "signature is invalid"]
    ELSE [ok |-> TRUE, err |-> "nil", sub |-> t.sub]

\* jwt.ParseWithClaims with the key function of VerifyToken: a malformed
\* string fails to parse; the key function refuses every alg but HS256 and
\* gives tokenSecret; the signature is verified under the header's method.
\* A token carries the claims ServeLogin sets (no expiry).
VerifyToken(t) ==
    IF ~t.wf THEN [ok |-> FALSE, err |-> "malformed"]
    ELSE IF t.alg # "HS256"
    THEN [ok |-> FALSE, err |-> "unexpected signing method"]
    ELSE IF ~MethodVerify(t.alg, tokenSecret, t.sub, t.sig)
    THEN [ok |-> FALSE, err |-> "signature is invalid"]
    ELSE [ok |-> TRUE, err |-> "nil", sub |-> t.sub]

\* An Authorization header: absent, or a scheme and a token.
Headers ==
    {[scheme |-> "absent"]}
        \cup {[scheme |-> sch, token |-> t] : sch \in {"Basic", "Bearer"}, t \in Tokens}

\* ----------------------------------------------------------------- REST

\* ServeLogin: a payload that does not decode is a 500; any other payload
\* is answered with a token for its username (the password is only logged).
ServeLogin(decodes, username, password) ==
    /\ resp' = IF ~decodes
               THEN [op |-> "login", status |-> 500, token |-> {}]
               ELSE [op |-> "login", status |-> 200, username |-> username,
                     password |-> password, token |-> {IssueToken(username)}]
    /\ UNCHANGED <<tasks, actions, last, users, req>>

ServeVerifyToken(h) ==
    /\ resp' = IF h.scheme # "Bearer"
               THEN [op |-> "verify", header |-> h, status |-> 401, claims |-> {}]
               ELSE LET v == VerifyToken(h.token)
                    IN  IF ~v.ok
                        THEN [op |-> "verify", header |-> h, status |-> 401,
                              claims |-> {}]
                        ELSE [op |-> "verify", header |-> h, status |-> 200,
                              claims |-> {v.sub}]
    /\ UNCHANGED <<tasks, actions, last, users, req>>

\* ------------------------------------------------------------ request gate

\* context.WithTimeout(context.Background(), 500*time.Millisecond)
Timeout == 500
\* How long (ms) the call data.AuthUserId(token) may take to return.
Durations == {0, 250, 500, 750}

\* data.GetBearerToken(r): the token after the "Bearer " prefix of the
\* Authorization header, an error without that prefix.
GetBearerToken(h) ==
    IF h.scheme = "Bearer" THEN [ok |-> TRUE, token |-> h.token]
    ELSE [ok |-> FALSE]

\* data.AuthUserId(token): the token is verified and its subject resolved
\* to the id of the user of that name.
AuthUserId(us, t) ==
    LET v == VerifyToken(t)
    IN  IF ~v.ok THEN [ok |-> FALSE]
        ELSE LET m == GetUserByUsername(us, v.sub)
             IN  IF m = {} THEN [ok |-> FALSE]
                 ELSE [ok |-> TRUE, id |-> (CHOOSE x \in m : TRUE).id]

\* authGraphqlHandler up to the call of AuthUserId: without a bearer token
\* the request is answered 401; with one, the context with the deadline is
\* made and AuthUserId(token) is called (it is not given the context).
GateReceive(h) ==
    /\ req.pc \in {"idle", "done"}
    /\ LET b == GetBearerToken(h)
       IN  req' = IF ~b.ok
                  THEN [pc |-> "done", header |-> h, status |-> 401,
                        invoked |-> FALSE]
                  ELSE [pc |-> "auth", header |-> h, token |-> b.token]
    /\ UNCHANGED <<tasks, actions, last, users, resp>>

\* GateAuthReturn without the return on an error of AuthUserId.
GateAuthReturnAlways(elapsed) ==
    /\ req.pc = "auth"
    /\ LET a == AuthUserId(users, req.token)
       IN  req' = [pc |-> "done", header |-> req.header, elapsed |-> elapsed,
                   status |-> 200, invoked |-> TRUE,
                   ctx |-> [UserIdKey |-> IF a.ok THEN a.id ELSE 0,
                            expired |-> elapsed >= Timeout]]
    /\ UNCHANGED <<tasks, actions, last, users, resp>>

\* authGraphqlHandler from the return of AuthUserId, elapsed ms after the
\* context was made: an error is answered 401; otherwise the user id is put
\* in the context under UserIdKey and the GraphQL handler is called with it
\* (status 200 stands for whatever the handler answers).
GateAuthReturn(elapsed) ==
    /\ req.pc = "auth"
    /\ LET a == AuthUserId(users, req.token)
       IN  req' = IF ~a.ok
                  THEN [pc |-> "done", header |-> req.header, elapsed |-> elapsed,
                        status |-> 401, invoked |-> FALSE]
                  ELSE [pc |-> "done", header |-> req.header, elapsed |-> elapsed,
                        status |-> 200, invoked |-> TRUE,
                        ctx |-> [UserIdKey |-> a.id,
                                 expired |-> elapsed >= Timeout]]
    /\ UNCHANGED <<tasks, actions, last, users, resp>>

\* ------------------------------------------------------------ claims (store)

IdArgs == TaskIds \cup {Blank}
NotFound == [rows |-> {}, err |-> "record not found"]
OwnedBy(ts, taskId, userId) == {t \in Live(ts) : t.id = taskId /\ t.user = userId}
VisibleIds(ts, as, userId) == {r.id : r \in GetTasks(ts, as, userId, "nil")}

\* C1: GetTask(id, A, kind) gives the same not-found outcome (no task, the
\* same error) when the task with that id belongs to another user as when
\* no row has that id at all; a task is returned only when its id is id, its
\* owner is A and, when a kind is given, its kind is that kind.
C1_GetTaskHidesOthers ==
    /\ \A id \in IdArgs, A \in UserIds, k \in KindArgs :
          LET r == GetTask(tasks, actions, id, A, k)
          IN  /\ OwnedBy(tasks, id, A) = {} =>
                    /\ r = NotFound
                    /\ r = GetTask({t \in tasks : t.id # id}, actions, id, A, k)
              /\ \A x \in r.rows :
                    x.id = id /\ x.user = A /\ (k # "nil" => x.kind = k)
    /\ last.op = "GetTask" /\ OwnedBy(tasks, last.id, last.user) = {}
          => last.ret = NotFound

C1_Witness ==
    /\ last.op = "GetTask"
    /\ last.ret = NotFound
    /\ \E t \in Live(tasks) : t.id = last.id /\ t.user # last.user

\* C2: a task is listed by GetTasks(u, nil) from u's AddTask until u's
\* DeleteTask, and is listed for no other user: a step that ends a task's
\* listing for u is a DeleteTask by u, and a step that starts a task's
\* listing for u is an AddTask by u of that task.
C2_ListedForOwnerOnly ==
    [][\A u \in UserIds :
          /\ \A id \in VisibleIds(tasks, actions, u) \ VisibleIds(tasks', actions', u) :
                last'.op = "DeleteTask" /\ last'.user = u
          /\ \A id \in VisibleIds(tasks', actions', u) \ VisibleIds(tasks, actions, u) :
                last'.op = "AddTask" /\ last'.user = u /\ last'.id = id]_vars

\* C3: a successful AddTask(task, userId) stores the task with owner userId
\* whatever owner the caller put in task.UserId; the stored task is listed
\* for userId and for no other user.
C3_AddTaskStampsOwner ==
    last.op = "AddTask" /\ last.err = "nil" =>
        /\ \E t \in Live(tasks) : t.id = last.id
        /\ \A t \in Live(tasks) : t.id = last.id => t.user = last.user
        /\ \A u \in UserIds : last.id \in VisibleIds(tasks, actions, u) <=> u = last.user

C3_Witness ==
    /\ last.op = "AddTask"
    /\ last.err = "nil"
    /\ last.owner # last.user
    /\ last.owner # 0
    /\ last.id \in VisibleIds(tasks, actions, last.user)

\* C4: AddAction(action, u) whose task is absent or owned by another user, and
\* DeleteAction(id, u) on an action whose parent task is not u's, return an
\* error and leave the stored actions as they were; an action row is added
\* or removed only under a task its caller owns.
C4_ActionsOnlyByTaskOwner ==
    [][/\ last'.op = "AddAction" /\ OwnedBy(tasks, last'.taskId, last'.user) = {}
            => last'.err # "nil" /\ actions' = actions
       /\ last'.op = "DeleteAction" =>
            /\ \A a \in FirstAction(actions, last'.id) :
                  OwnedBy(tasks, a.taskId, last'.user) = {}
                      => last'.err # "nil" /\ actions' = actions
            /\ last'.err # "nil" => actions' = actions
       /\ \A a \in (actions' \ actions) \cup (actions \ actions') :
             OwnedBy(tasks, a.taskId, last'.user) # {}]_vars

C4_Witness ==
    \/ /\ last.op = "AddAction"
       /\ last.err = "does not exist for user"
       /\ \E t \in Live(tasks) : t.id = last.taskId /\ t.user # last.user
    \/ /\ last.op = "DeleteAction"
       /\ last.err = "record not found"
       /\ \E a \in actions : /\ a.id = last.id
                             /\ \E t \in Live(tasks) : t.id = a.taskId /\ t.user # last.user

\* C5: DeleteTask(taskId, userId) with no task whose id is taskId and whose
\* owner is userId (zero values included) returns (false, nil) and removes
\* nothing; it returns true only when that owner's task was removed.
C5_DeleteTaskOnlyOwn ==
    [][last'.op = "DeleteTask" =>
          LET own == OwnedBy(tasks, last'.id, last'.user)
          IN  /\ own = {} => last'.ret = FALSE /\ last'.err = "nil" /\ tasks' = tasks
              /\ last'.ret = TRUE => own # {} /\ Live(tasks) \ Live(tasks') = own]_vars

\* C6: UpdateTask(taskId, userId, attrs) changes only the task whose id is
\* taskId and whose owner is userId; with no such task it returns the
\* does-not-exist error and leaves every task as it was; on success it
\* returns the task with its actions.
C6_UpdateTaskOnlyOwn ==
    [][last'.op = "UpdateTask" =>
          LET own == OwnedBy(tasks, last'.id, last'.user)
          IN  /\ own = {} => last'.err = "does not exist for user" /\ tasks' = tasks
              /\ tasks \ tasks' \subseteq own
              /\ last'.err = "nil" =>
                    /\ last'.ret.id = last'.id
                    /\ last'.ret.actions = ActionsOf(actions, last'.id)]_vars


\* ------------------------------------------------------ claims (REST, gate)

PasswordMatches(x, password) == x.hash = Bcrypt(password, x.hash.salt)

\* C7: a login with the username and password of a created user yields a
\* token; a login with that username and another password, or for a username
\* never created, is answered 401 and yields no token.
C7_LoginChecksPassword ==
    resp.op = "login" /\ resp.status # 500 =>
        LET good == \E x \in users : /\ x.username = resp.username
                                     /\ PasswordMatches(x, resp.password)
        IN  /\ good => resp.status = 200 /\ resp.token = {IssueToken(resp.username)}
            /\ ~good => resp.status = 401 /\ resp.token = {}

SignedByService(t) == t.wf /\ t.alg = "HS256" /\ t.sig = Mac("HS256", tokenSecret, t.sub)

C8_HandlerOnlyAuthenticated ==
    [][req'.pc = "done" /\ req' # req =>
          LET h == req'.header
              authed == /\ h.scheme = "Bearer"
                        /\ VerifyToken(h.token).ok
                        /\ \E x \in users : x.username = h.token.sub
          IN  /\ req'.invoked =>
                    /\ authed
                    /\ \E x \in users : /\ x.username = h.token.sub
                                        /\ req'.ctx.UserIdKey = x.id
              /\ ~authed => ~req'.invoked /\ req'.status = 401]_vars

C8_Witness ==
    /\ req.pc = "done"
    /\ req.invoked
    /\ req.header.scheme = "Bearer"
    /\ \E x \in users : x.username = req.header.token.sub /\ req.ctx.UserIdKey = x.id

\* C10: when verification and identity resolution have not finished at the
\* deadline (500 ms), the request is aborted (with a timeout error, not the
\* 401 of an auth failure) and the handler is not reached as authenticated:
\* no request whose verification outlasted the deadline reaches the handler.
C10_DeadlineAbortsRequest ==
    req.pc = "done" /\ req.header.scheme = "Bearer" /\ req.elapsed > Timeout =>
        ~req.invoked

\* ------------------------------------------------------------ specifications

Init ==
    /\ tasks = {}
    /\ actions = {}
    /\ last = NoCall
    /\ users = {}
    /\ resp = [op |-> "none"]
    /\ req = [pc |-> "idle"]

Next ==
    \/ \E id \in TaskIds \cup {Blank}, u \in UserIds, k \in KindArgs : GetTaskCall(id, u, k)
    \/ \E u \in UserIds, k \in KindArgs : GetTasksCall(u, k)
    \/ \E id \in TaskIds \cup {Blank}, k \in TaskKinds, d \in BOOLEAN, o \in UserIds, u \in UserIds :
          AddTask(id, k, d, o, u)
    \/ \E id \in TaskIds \cup {Blank}, u \in UserIds : DeleteTask(id, u)
    \/ \E id \in TaskIds \cup {Blank}, u \in UserIds, at \in AttrMaps : UpdateTask(id, u, at)
    \/ \E id \in ActionIds \cup {Blank}, t \in TaskIds \cup {Blank}, u \in UserIds : AddAction(id, t, u)
    \/ \E id \in ActionIds \cup {Blank}, u \in UserIds : DeleteAction(id, u)

Spec == Init /\ [][Next]_vars

NextRest ==
    \/ \E u \in Usernames, p \in Passwords : CreateUser(u, p)
    \/ \E d \in BOOLEAN, u \in Usernames, p \in Passwords : ServeLogin(d, u, p)
    \/ \E h \in Headers : ServeVerifyToken(h)

SpecRest == Init /\ [][NextRest]_vars

NextGate ==
    \/ \E u \in Usernames, p \in Passwords : CreateUser(u, p)
    \/ \E h \in Headers : GateReceive(h)
    \/ \E d \in Durations : GateAuthReturn(d)

SpecGate == Init /\ [][NextGate]_vars
====
